---- MODULE Spec2Model ----
(***************************************************************************)
(* PsychoGuard AI: the /analyze, /quick-score and /report handlers of      *)
(* app.py together with the components they sequence: analyze_text and     *)
(* highlight_sentences (model.py), generate_explanation and                *)
(* _parse_sections (llm_analyzer.py), the two CLIP analyzers               *)
(* (multimodal.py) and generate_report (report_gen.py).                    *)
(*                                                                         *)
(* Text is a sequence of one-character strings.  Classifier scores are     *)
(* integers in thousandths (ScoreScale), and every mean, product and       *)
(* rounding of the code is computed exactly on fractions num/den.          *)
(***************************************************************************)
EXTENDS Integers, Sequences, FiniteSets, TLC

VARIABLES
    env_key,      \* os.environ["ANTHROPIC_API_KEY"], "" when unset
    client,       \* llm_analyzer._client
    available,    \* multimodal._available
    clip_loaded,  \* whether multimodal._load_clip() has run (import time)
    pc,           \* position of the request handler
    endpoint,     \* route of the request being handled
    req,          \* the AnalyzeRequest being handled
    oracle,       \* outcomes of the successive classifier calls of the request
    analysis,     \* local `analysis` of the handler
    highlights,   \* local `highlights` of the handler
    explanation,  \* local `explanation` of the handler
    multimodal,   \* local `multimodal` of the handler
    document,     \* the story built by generate_report
    response,     \* what the handler returned or raised
    calls,        \* external calls made for the request, in order
    reply,        \* argument of _parse_sections (parser specification)
    sections      \* result of _parse_sections (parser specification)

vars == <<env_key, client, available, clip_loaded, pc, endpoint, req, oracle,
          analysis, highlights, explanation, multimodal, document, response,
          calls, reply, sections>>

\* ---------------------------------------------------------------- bounds
\* Resolution of the classifier's scores: a score is k / ScoreScale.
ScoreScale == 1000
\* Words per chunk passed as `size` to _chunk_text (the code's default is
\* 400, model.py:131); scaled down so that texts of up to seven chunks stay
\* enumerable.  Every text below is built relative to it.
ChunkSize == 2
\* Longest reply, in lines, handed to _parse_sections.
MaxLines == 5
\* Longest sequence of direct calls of the two multimodal functions.
MaxCalls == 2

\* ------------------------------------------------------- program constants
MinChars == 10
MaxChunks == 5
MaxSentences == 20
MinSentenceWords == 4
Boost == 180
MaxTop == 3
HighCut == 70
ModerateCut == 40
RiskHigh == 60
RiskModerate == 35
PromptChars == 1500
ExcerptChars == 800

None == <<"None">>

TACTIC_LABELS ==
    << "Fear & Urgency", "False Social Proof", "Identity Attack",
       "Emotional Hijacking", "Scarcity Illusion", "Gaslighting" >>

Tactics == { TACTIC_LABELS[i] : i \in 1..Len(TACTIC_LABELS) }

\* ------------------------------------------------------------ arithmetic
Min(a, b) == IF a <= b THEN a ELSE b

\* round() of the fraction num/den to an integer, ties to even (Python 3)
RoundHalfEven(num, den) ==
    LET q == num \div den
        r == num % den
    IN  IF 2 * r < den THEN q
        ELSE IF 2 * r > den THEN q + 1
        ELSE IF q % 2 = 0 THEN q ELSE q + 1

RECURSIVE SumSeq(_)
SumSeq(s) == IF s = <<>> THEN 0 ELSE Head(s) + SumSeq(Tail(s))

\* ------------------------------------------------------------------ text
Whitespace == { " ", "\n", "\t", "\r" }
SentenceEnd == { ".", "!", "?" }

\* the first index >= i that holds no whitespace (Len(t) + 1 if none)
RECURSIVE SkipSpace(_, _)
SkipSpace(t, i) ==
    IF i <= Len(t) /\ t[i] \in Whitespace THEN SkipSpace(t, i + 1) ELSE i

\* the first index >= i that holds whitespace (Len(t) + 1 if none)
RECURSIVE FindSpace(_, _)
FindSpace(t, i) ==
    IF i <= Len(t) /\ t[i] \notin Whitespace THEN FindSpace(t, i + 1) ELSE i

\* the last index <= i that holds no whitespace (0 if none)
RECURSIVE SkipSpaceBack(_, _)
SkipSpaceBack(t, i) ==
    IF i >= 1 /\ t[i] \in Whitespace THEN SkipSpaceBack(t, i - 1) ELSE i

lstrip(t) == SubSeq(t, SkipSpace(t, 1), Len(t))
rstrip(t) == SubSeq(t, 1, SkipSpaceBack(t, Len(t)))

\* str.strip()
strip(t) == rstrip(lstrip(t))

\* str.split(): the maximal runs of non-whitespace characters
RECURSIVE SplitFrom(_, _)
SplitFrom(t, i) ==
    LET b == SkipSpace(t, i)
        e == FindSpace(t, b)
    IN  IF b > Len(t) THEN <<>>
        ELSE <<SubSeq(t, b, e - 1)>> \o SplitFrom(t, e)

split(t) == SplitFrom(t, 1)

\* " ".join(ws)
RECURSIVE join(_)
join(ws) ==
    IF ws = <<>> THEN <<>>
    ELSE IF Len(ws) = 1 THEN ws[1]
    ELSE ws[1] \o <<" ">> \o join(Tail(ws))

\* the first index >= i of a whitespace character that follows a
\* sentence-ending character (Len(t) + 1 if none)
RECURSIVE FindCut(_, _)
FindCut(t, i) ==
    IF i > Len(t) THEN i
    ELSE IF t[i] \in Whitespace /\ i > 1 /\ t[i - 1] \in SentenceEnd THEN i
    ELSE FindCut(t, i + 1)

\* re.split(r'(?<=[.!?])\s+', t): cut at every whitespace run that follows
\* a sentence-ending character; the run itself is dropped
RECURSIVE ReSplitFrom(_, _)
ReSplitFrom(t, i) ==
    LET c == FindCut(t, i)
    IN  IF c > Len(t) THEN <<SubSeq(t, i, Len(t))>>
        ELSE <<SubSeq(t, i, c - 1)>> \o ReSplitFrom(t, SkipSpace(t, c))

SplitSentences(t) == ReSplitFrom(t, 1)

\* s[:n]
Take(s, n) == SubSeq(s, 1, Min(n, Len(s)))

Truthy(t) == t # None /\ t # <<>>

\* mutant: the length is taken before trimming
TooShort_untrimmed(t) == ~Truthy(t) \/ Len(t) < MinChars

\* `not text or len(text.strip()) < 10`
TooShort(t) == ~Truthy(t) \/ Len(strip(t)) < MinChars

\* ------------------------------------------------------------- fractions
Frac(n, d) == [num |-> n, den |-> d]
FracGT(f, g) == f.num * g.den > g.num * f.den
FracGE(f, g) == f.num * g.den >= g.num * f.den
FracMin(f, g) == IF FracGE(g, f) THEN f ELSE g
FracMul(f, k) == Frac(f.num * k, f.den)
\* `s > 0.25`, `top_score * 1.8` and `top_score > 0.3` of model.py
TopThreshold == Frac(25, 100)
HighlightBoost == Frac(18, 10)
TacticCut == Frac(3, 10)

\* round(f * 10^d) as an integer: round(f, 1) in tenths, round(f, 3) in
\* thousandths
RoundTo(f, pow10) == RoundHalfEven(f.num * pow10, f.den)

\* float(np.mean(xs)) over a sequence of fractions with a common denominator
MeanOf(fs) ==
    Frac(SumSeq([i \in 1..Len(fs) |-> fs[i].num]), fs[1].den * Len(fs))

\* ------------------------------------------------------------ classifier
\* sorted(items, key=lambda x: x[1], reverse=True) on <<label, score>>
\* pairs, the score a fraction: descending by score, equal scores keep
\* their input order
\* mutant: an entry goes before the entries of equal score
InsertDesc_before_equal(x, s) ==
    LET keep == { i \in 0..Len(s) : \A j \in 1..i : FracGT(s[j][2], x[2]) }
        pos  == CHOOSE i \in keep : \A k \in keep : k <= i
    IN  SubSeq(s, 1, pos) \o <<x>> \o SubSeq(s, pos + 1, Len(s))

InsertDesc(x, s) ==
    LET keep == { i \in 0..Len(s) : \A j \in 1..i : ~FracGT(x[2], s[j][2]) }
        pos  == CHOOSE i \in keep : \A k \in keep : k <= i
    IN  SubSeq(s, 1, pos) \o <<x>> \o SubSeq(s, pos + 1, Len(s))

RECURSIVE SortedDesc(_, _)
SortedDesc(items, n) ==
    IF n = 0 THEN <<>>
    ELSE InsertDesc(items[n], SortedDesc(items, n - 1))

\* The outcome the environment gives to the n-th classifier call of a
\* request: an exception, or one score in thousandths per candidate label.
OutcomeAt(orc, n) == orc[((n - 1) % Len(orc)) + 1]

\* pipeline("zero-shot-classification")(span, candidate_labels=...): the
\* labels with their scores, best first
classifier(labels, outcome) ==
    LET ranked == SortedDesc([i \in 1..Len(labels) |->
                   <<labels[i], Frac(outcome.vec[labels[i]], ScoreScale)>>],
                 Len(labels))
    IN  [labels |-> [i \in 1..Len(ranked) |-> ranked[i][1]],
         scores |-> [i \in 1..Len(ranked) |-> ranked[i][2].num]]

ClassifierCall(span, multi, outcome) ==
    [fn |-> "classifier", span |-> span, multi_label |-> multi,
     raised |-> outcome.raises]

NumClassifierCalls(log) ==
    Len(SelectSeq(log, LAMBDA c : c.fn = "classifier"))

\* ---------------------------------------------------------- analyze_text
\* chunks = [" ".join(words[i:i+size]) for i in range(0, len(words), size)]
_chunk_text(text, size) ==
    LET words  == split(text)
        n      == (Len(words) + size - 1) \div size
        chunks == [k \in 1..n |->
                     join(SubSeq(words, (k - 1) * size + 1,
                                 Min(k * size, Len(words))))]
        kept   == SelectSeq(chunks, LAMBDA c : strip(c) # <<>>)
    IN  IF kept # <<>> THEN kept ELSE <<text>>

_empty_result ==
    [overall_score   |-> 0,
     severity        |-> "LOW",
     severity_color  |-> "#22c55e",
     tactic_scores   |-> [l \in Tactics |-> 0],
     top_tactics     |-> <<>>,
     chunks_analyzed |-> 0,
     word_count      |-> 0]

\* dict(zip(result["labels"], result["scores"])).get(label, 0)
ScoreOf(result, label) ==
    LET hits == { i \in 1..Len(result.labels) : result.labels[i] = label }
    IN  IF hits = {} THEN 0
        ELSE result.scores[CHOOSE i \in hits : \A j \in hits : j <= i]

\* the loop `for chunk in chunks[:5]`: [raised, all_scores, log].  The
\* k-th chunk makes the next classifier call of the request; the first call
\* that raises ends the loop.
ClassifyChunks(chunks, orc, log) ==
    LET before   == NumClassifierCalls(log)
        outcomes == [k \in 1..Len(chunks) |-> OutcomeAt(orc, before + k)]
        failing  == { k \in 1..Len(chunks) : outcomes[k].raises }
        last     == IF failing = {} THEN Len(chunks)
                    ELSE CHOOSE k \in failing : \A j \in failing : k <= j
    IN  [raised     |-> failing # {},
         all_scores |-> IF failing # {} THEN <<>>
                        ELSE [k \in 1..Len(chunks) |->
                                classifier(TACTIC_LABELS, outcomes[k])],
         log        |-> log \o [k \in 1..last |->
                                  ClassifierCall(chunks[k], TRUE, outcomes[k])]]

SeverityOf(overall) ==
    IF FracGE(overall, Frac(HighCut, 1)) THEN <<"HIGH", "#ef4444">>
    ELSE IF FracGE(overall, Frac(ModerateCut, 1)) THEN <<"MODERATE", "#f59e0b">>
    ELSE <<"LOW", "#22c55e">>

\* The dict returned by analyze_text.  overall_score is in tenths and
\* tactic_scores in tenths of a percent (both are rounded to one decimal).
\* tactic_colors and tactic_descriptions are the module's static tables and
\* are left out of the record.
Aggregate(text, chunks, all_scores) ==
    LET tactic_scores == [l \in Tactics |->
            MeanOf([c \in 1..Len(all_scores) |->
                       Frac(ScoreOf(all_scores[c], l), ScoreScale)])]
        raw     == MeanOf([i \in 1..Len(TACTIC_LABELS) |->
                              tactic_scores[TACTIC_LABELS[i]]])
        overall == FracMin(Frac(100, 1), FracMul(raw, Boost))
        sorted_tactics ==
            SortedDesc([i \in 1..Len(TACTIC_LABELS) |->
                           <<TACTIC_LABELS[i], tactic_scores[TACTIC_LABELS[i]]>>],
                       Len(TACTIC_LABELS))
        above   == SelectSeq(sorted_tactics,
                     LAMBDA p : FracGT(p[2], TopThreshold))
        top_tactics == [i \in 1..Len(above) |-> above[i][1]]
        sev     == SeverityOf(overall)
    IN  [overall_score   |-> RoundTo(overall, 10),
         severity        |-> sev[1],
         severity_color  |-> sev[2],
         tactic_scores   |-> [l \in Tactics |->
                                RoundTo(FracMul(tactic_scores[l], 100), 10)],
         top_tactics     |-> Take(top_tactics, MaxTop),
         chunks_analyzed |-> Len(Take(chunks, MaxChunks)),
         word_count      |-> Len(split(text))]

\* mutant: every chunk is classified, not only chunks[:5]
analyze_text_all_chunks(text, orc, log) ==
    IF TooShort(text)
    THEN [raised |-> FALSE, result |-> _empty_result, log |-> log]
    ELSE LET chunks == _chunk_text(text, ChunkSize)
             run    == ClassifyChunks(chunks, orc, log)
         IN  IF run.raised
             THEN [raised |-> TRUE, result |-> None, log |-> run.log]
             ELSE [raised |-> FALSE,
                   result |-> Aggregate(text, chunks, run.all_scores),
                   log    |-> run.log]

\* mutant: a classifier exception is caught and the empty result returned
analyze_text_swallowing(text, orc, log) ==
    IF TooShort(text)
    THEN [raised |-> FALSE, result |-> _empty_result, log |-> log]
    ELSE LET chunks == _chunk_text(text, ChunkSize)
             run    == ClassifyChunks(Take(chunks, MaxChunks), orc, log)
         IN  IF run.raised
             THEN [raised |-> FALSE, result |-> _empty_result, log |-> run.log]
             ELSE [raised |-> FALSE,
                   result |-> Aggregate(text, chunks, run.all_scores),
                   log    |-> run.log]

\* analyze_text(text): [raised, result, log]; log continues the request's
\* call log
analyze_text(text, orc, log) ==
    IF TooShort(text)
    THEN [raised |-> FALSE, result |-> _empty_result, log |-> log]
    ELSE LET chunks == _chunk_text(text, ChunkSize)
             run    == ClassifyChunks(Take(chunks, MaxChunks), orc, log)
         IN  IF run.raised
             THEN [raised |-> TRUE, result |-> None, log |-> run.log]
             ELSE [raised |-> FALSE,
                   result |-> Aggregate(text, chunks, run.all_scores),
                   log    |-> run.log]

\* --------------------------------------------------- highlight_sentences
ZeroHighlight(sent) == [text |-> sent, score |-> 0, tactic |-> None]

\* `len(sent.split()) < 4` is false: the sentence goes to the classifier
Classified(sent) == Len(split(sent)) >= MinSentenceWords

\* the body of `for sent in sentences[:20]` for one sentence, given what
\* the classifier does if it is called; score is in thousandths
\* (round(scaled, 3))
HighlightOne(sent, outcome) ==
    IF ~Classified(sent) THEN ZeroHighlight(sent)
    ELSE IF outcome.raises THEN ZeroHighlight(sent)
    ELSE LET res       == classifier(TACTIC_LABELS, outcome)
             top_score == Frac(res.scores[1], ScoreScale)
             top_label == res.labels[1]
             scaled    == FracMin(Frac(1, 1),
                            Frac(top_score.num * HighlightBoost.num,
                                 top_score.den * HighlightBoost.den))
         IN  [text   |-> sent,
              score  |-> RoundTo(scaled, 1000),
              tactic |-> IF FracGT(top_score, TacticCut)
                         THEN top_label ELSE None]

\* the loop `for sent in sentences[:20]` over sents, whose i-th sentence is
\* classified iff cls[i]: [results, log].  A classified sentence makes the
\* next classifier call of the request; sentences are handled one by one,
\* in order.
HighlightLoop(sents, cls, orc, log) ==
    LET before == NumClassifierCalls(log)
        callNo == [i \in 1..Len(sents) |->
                     before + Cardinality({ j \in 1..i : cls[j] })]
        idx    == SelectSeq([i \in 1..Len(sents) |-> i], LAMBDA i : cls[i])
    IN  [results |-> [i \in 1..Len(sents) |->
                        HighlightOne(sents[i], OutcomeAt(orc, callNo[i]))],
         log     |-> log \o [k \in 1..Len(idx) |->
                        ClassifierCall(sents[idx[k]], FALSE,
                                       OutcomeAt(orc, callNo[idx[k]]))]]

SentenceFlags(sents) == [i \in 1..Len(sents) |-> Classified(sents[i])]

\* mutant: every sentence is handled, not only sentences[:20]
highlight_sentences_uncapped(text, orc, log) ==
    HighlightLoop(SplitSentences(strip(text)),
                  SentenceFlags(SplitSentences(strip(text))), orc, log)

\* highlight_sentences(text): [results, log]
highlight_sentences(text, orc, log) ==
    HighlightLoop(Take(SplitSentences(strip(text)), MaxSentences),
                  SentenceFlags(Take(SplitSentences(strip(text)), MaxSentences)),
                  orc, log)

\* -------------------------------------------------------- _parse_sections
LowerCase ==
    << "a", "b", "c", "d", "e", "f", "g", "h", "i", "j", "k", "l", "m",
       "n", "o", "p", "q", "r", "s", "t", "u", "v", "w", "x", "y", "z" >>

UpperCase ==
    << "A", "B", "C", "D", "E", "F", "G", "H", "I", "J", "K", "L", "M",
       "N", "O", "P", "Q", "R", "S", "T", "U", "V", "W", "X", "Y", "Z" >>

H_SUMMARY ==
    << "S", "U", "M", "M", "A", "R", "Y" >>

H_KEY_TACTICS ==
    << "K", "E", "Y", " ", "T", "A", "C", "T", "I", "C", "S" >>

H_MECHANISM ==
    << "P", "S", "Y", "C", "H", "O", "L", "O", "G", "I", "C", "A", "L",
       " ", "M", "E", "C", "H", "A", "N", "I", "S", "M" >>

H_WATCH_OUT ==
    << "W", "H", "A", "T", " ", "T", "O", " ", "W", "A", "T", "C", "H",
       " ", "O", "U", "T", " ", "F", "O", "R" >>

H_VERDICT ==
    << "V", "E", "R", "D", "I", "C", "T" >>

headings == << H_SUMMARY, H_KEY_TACTICS, H_MECHANISM, H_WATCH_OUT, H_VERDICT >>

LineBreaks == { "\n", "\r" }

\* str.upper()
upper(t) ==
    [i \in 1..Len(t) |->
        IF \E k \in 1..Len(LowerCase) : LowerCase[k] = t[i]
        THEN UpperCase[CHOOSE k \in 1..Len(LowerCase) : LowerCase[k] = t[i]]
        ELSE t[i]]

\* str.startswith(h)
startswith(t, h) == Len(t) >= Len(h) /\ SubSeq(t, 1, Len(h)) = h

\* str.splitlines(): a line ends at "\n", "\r" or "\r\n"; no empty last line
\* the first index >= i that holds a line break (Len(t) + 1 if none)
RECURSIVE FindBreak(_, _)
FindBreak(t, i) ==
    IF i <= Len(t) /\ t[i] \notin LineBreaks THEN FindBreak(t, i + 1) ELSE i

RECURSIVE SplitLinesFrom(_, _)
SplitLinesFrom(t, i) ==
    LET e == FindBreak(t, i)
        n == IF e < Len(t) /\ t[e] = "\r" /\ t[e + 1] = "\n" THEN e + 2 ELSE e + 1
    IN  IF i > Len(t) THEN <<>>
        ELSE <<SubSeq(t, i, e - 1)>> \o SplitLinesFrom(t, n)

splitlines(t) == SplitLinesFrom(t, 1)

\* A dict is a sequence of <<key, value>> pairs in insertion order.
DictKeys(d) == { d[i][1] : i \in 1..Len(d) }
DictSet(d, k, v) ==
    IF k \in DictKeys(d)
    THEN [i \in 1..Len(d) |-> IF d[i][1] = k THEN <<k, v>> ELSE d[i]]
    ELSE Append(d, <<k, v>>)

\* mutant: the line is compared without upper-casing it
MatchHeading_case_sensitive(stripped) ==
    LET hits == { k \in 1..Len(headings) : startswith(stripped, headings[k]) }
    IN  IF hits = {} THEN None
        ELSE headings[CHOOSE k \in hits : \A j \in hits : k <= j]

\* next((h for h in headings if stripped.upper().startswith(h)), None)
MatchHeading(stripped) ==
    LET hits == { k \in 1..Len(headings) :
                    startswith(upper(stripped), headings[k]) }
    IN  IF hits = {} THEN None
        ELSE headings[CHOOSE k \in hits : \A j \in hits : k <= j]

\* the body of `for line in text.splitlines()`
ParseLine(line, st) ==
    LET stripped == strip(line)
        matched  == MatchHeading(stripped)
    IN  IF Truthy(matched)
        THEN [sections |-> IF Truthy(st.current)
                           THEN DictSet(st.sections, st.current,
                                        strip(join(st.buf)))
                           ELSE st.sections,
              current  |-> matched,
              buf      |-> <<>>]
        ELSE IF Truthy(st.current) /\ Truthy(stripped)
             THEN [st EXCEPT !.buf = Append(@, stripped)]
             ELSE st

RECURSIVE ParseLoop(_, _, _)
ParseLoop(lines, i, st) ==
    IF i > Len(lines) THEN st
    ELSE ParseLoop(lines, i + 1, ParseLine(lines[i], st))

_parse_sections(text) ==
    LET st == ParseLoop(splitlines(text), 1,
                        [sections |-> <<>>, current |-> None, buf |-> <<>>])
    IN  IF Truthy(st.current)
        THEN DictSet(st.sections, st.current, strip(join(st.buf)))
        ELSE st.sections

\* ---------------------------------------------------- generate_explanation
NoClient == None

\* _get_client(): <<returned client, new value of _client>>
_get_client(cl, api_key) ==
    IF cl = NoClient
    THEN IF ~Truthy(api_key) THEN <<NoClient, cl>>
         ELSE <<<<"Anthropic", api_key>>, <<"Anthropic", api_key>>>>
    ELSE <<cl, cl>>

GUIDANCE ==
    <<"Set ANTHROPIC_API_KEY environment variable to enable LLM analysis.">>

\* ", ".join(analysis.get("top_tactics", [])) or "none"
TacticSummary(an) == IF an.top_tactics = <<>> THEN <<"none">> ELSE an.top_tactics

\* generate_explanation(text, analysis): [result, client, log].  llm is what
\* client.messages.create does when it is called: it raises exc or returns
\* text.
generate_explanation(text, an, cl, api_key, llm, log) ==
    LET got == _get_client(cl, api_key)
    IN  IF got[1] = NoClient
        THEN [result |-> [success |-> FALSE, full_explanation |-> GUIDANCE,
                          sections |-> <<>>],
              client |-> got[2], log |-> log]
        ELSE LET entry == [fn |-> "llm", score |-> an.overall_score,
                           tactic_summary |-> TacticSummary(an),
                           text |-> Take(text, PromptChars),
                           raised |-> llm.raises]
             IN  IF llm.raises
                 THEN [result |-> [success |-> FALSE,
                                   full_explanation |-> <<"LLM error: ", llm.exc>>,
                                   sections |-> <<>>],
                       client |-> got[2], log |-> Append(log, entry)]
                 ELSE [result |-> [success |-> TRUE,
                                   full_explanation |-> llm.text,
                                   sections |-> _parse_sections(llm.text)],
                       client |-> got[2], log |-> Append(log, entry)]

\* ------------------------------------------------------------- multimodal
Unavailable == [available |-> FALSE]

\* _fetch_image followed by the CLIP inference, both inside the try block:
\* [raised, exc, probs, log].  env is what the network and the model do:
\* fetch_fails, infer_fails, probs (thousandths, one per text prompt).
RunClip(image_url, n, env, log) ==
    LET fetch == [fn |-> "fetch_image", url |-> image_url,
                  raised |-> env.fetch_fails]
        infer == [fn |-> "clip", prompts |-> n, raised |-> env.infer_fails]
    IN  IF env.fetch_fails
        THEN [raised |-> TRUE, exc |-> "fetch failed", probs |-> <<>>,
              log |-> Append(log, fetch)]
        ELSE IF env.infer_fails
        THEN [raised |-> TRUE, exc |-> "inference failed", probs |-> <<>>,
              log |-> log \o <<fetch, infer>>]
        ELSE [raised |-> FALSE, exc |-> "", probs |-> env.probs,
              log |-> log \o <<fetch, infer>>]

\* analyze_image_caption(image_url, caption): [result, log]; percentages
\* are in tenths (round(p * 100, 1))
analyze_image_caption(image_url, caption, avail, env, log) ==
    IF ~avail \/ ~Truthy(image_url)
    THEN [result |-> Unavailable, log |-> log]
    ELSE LET run == RunClip(image_url, 2, env, log)
         IN  IF run.raised
             THEN [result |-> [available |-> FALSE, error |-> run.exc],
                   log |-> run.log]
             ELSE LET match_pct    == RoundTo(Frac(run.probs[1] * 100, ScoreScale), 10)
                      mismatch_pct == RoundTo(Frac(run.probs[2] * 100, ScoreScale), 10)
                  IN  [result |-> [available |-> TRUE,
                                   match_probability |-> match_pct,
                                   mismatch_score |-> mismatch_pct,
                                   verdict |->
                                     IF mismatch_pct > 600 THEN "HIGH MISMATCH"
                                     ELSE IF mismatch_pct > 350 THEN "MODERATE"
                                     ELSE "ALIGNED"],
                       log |-> run.log]

\* analyze_clickbait with the guard reduced to `if not _available`
analyze_clickbait_any_url(image_url, avail, env, log) ==
    IF ~avail
    THEN [result |-> Unavailable, log |-> log]
    ELSE LET run == RunClip(image_url, 4, env, log)
         IN  IF run.raised
             THEN [result |-> [available |-> FALSE, error |-> run.exc],
                   log |-> run.log]
             ELSE [result |-> [available |-> TRUE,
                               clickbait_score |->
                                 RoundTo(Frac(SumSeq(Take(run.probs, 3)) * 100,
                                              ScoreScale), 10),
                               label_scores |->
                                 [i \in 1..4 |->
                                    RoundTo(Frac(run.probs[i] * 100, ScoreScale), 10)]],
                   log |-> run.log]

\* analyze_clickbait(image_url): [result, log]
analyze_clickbait(image_url, avail, env, log) ==
    IF ~avail \/ ~Truthy(image_url)
    THEN [result |-> Unavailable, log |-> log]
    ELSE LET run == RunClip(image_url, 4, env, log)
         IN  IF run.raised
             THEN [result |-> [available |-> FALSE, error |-> run.exc],
                   log |-> run.log]
             ELSE [result |-> [available |-> TRUE,
                               clickbait_score |->
                                 RoundTo(Frac(SumSeq(Take(run.probs, 3)) * 100,
                                              ScoreScale), 10),
                               label_scores |->
                                 [i \in 1..4 |->
                                    RoundTo(Frac(run.probs[i] * 100, ScoreScale), 10)]],
                   log |-> run.log]

\* ---------------------------------------------------------- generate_report
RiskOf(val) ==
    IF val >= RiskHigh * 10 THEN "HIGH"
    ELSE IF val >= RiskModerate * 10 THEN "MODERATE" ELSE "LOW"

\* the rows appended for `for tactic, val in tactic_scores.items()`
TacticRows(an) ==
    LET keys == SelectSeq(TACTIC_LABELS, LAMBDA l : l \in DOMAIN an.tactic_scores)
    IN  [i \in 1..Len(keys) |->
            <<keys[i], an.tactic_scores[keys[i]], RiskOf(an.tactic_scores[keys[i]])>>]

\* the paragraphs appended for `for heading, content in sections.items()`
RECURSIVE SectionParagraphs(_)
SectionParagraphs(secs) ==
    IF secs = <<>> THEN <<>>
    ELSE (IF Truthy(secs[1][2])
          THEN << [kind |-> "section_heading", text |-> secs[1][1]],
                  [kind |-> "section_body", text |-> secs[1][2]] >>
          ELSE <<>>) \o SectionParagraphs(Tail(secs))

\* generate_report(text, analysis, explanation, url): the story handed to
\* doc.build, without its spacers and rules
generate_report(text, an, expl, url) ==
    LET sev_col == IF an.severity = "HIGH" THEN "C_RED"
                   ELSE IF an.severity = "MODERATE" THEN "C_AMBER" ELSE "C_GREEN"
        header  == << [kind |-> "title"], [kind |-> "generated"] >>
        overview == << [kind |-> "overview", score |-> an.overall_score,
                        severity |-> an.severity, color |-> sev_col,
                        n_tact |-> Len(an.top_tactics)] >>
        breakdown == << [kind |-> "heading", text |-> <<"Tactic Breakdown">>],
                        [kind |-> "tactic_table",
                         rows |-> << <<"Tactic", "Score", "Risk">> >>
                                  \o TacticRows(an)] >>
        llm == IF expl.success
               THEN << [kind |-> "heading", text |-> <<"AI Analysis (Claude)">>] >>
                    \o SectionParagraphs(expl.sections)
                    \o (IF expl.sections = <<>> /\ Truthy(expl.full_explanation)
                        THEN << [kind |-> "explanation_body",
                                 text |-> expl.full_explanation] >>
                        ELSE <<>>)
               ELSE <<>>
        excerpt == IF Truthy(text)
                   THEN << [kind |-> "heading",
                            text |-> <<"Analysed Content (excerpt)">>],
                           [kind |-> "excerpt",
                            text |-> Take(text, ExcerptChars),
                            ellipsis |-> Len(text) > ExcerptChars] >>
                   ELSE <<>>
        source == IF Truthy(url) THEN << [kind |-> "source", url |-> url] >>
                  ELSE <<>>
    IN  header \o overview \o breakdown \o llm \o excerpt \o source
        \o << [kind |-> "footer"] >>

\* ----------------------------------------------------------------- inputs
RECURSIVE Rep(_, _)
Rep(t, n) == IF n = 0 THEN <<>> ELSE t \o Rep(t, n - 1)

Word == << "a", "b", "c" >>
\* n three-letter words, one space after each
NWords(n) == Rep(Word \o <<" ">>, n)
LongSentence == << "a", " ", "b", " ", "c", " ", "d", "." >>
ShortSentence == << "a", " ", "b", "!" >>

Texts ==
    { <<>>,                                           \* empty
      << " ", " ", "a", "b", "c", " ", "a", "b", "c", ".", " ", " ", " " >>,    \* 8 characters once trimmed
      << "a", "b", "c", "d", " ", "a", "b", "c", "d" >>,        \* 9 characters
      << " ", "a", "b", "c", "d", " ", "a", "b", "c", "d", "e", "\n" >>,    \* 10 characters once trimmed
      NWords(ChunkSize + 1),                          \* 2 chunks
      NWords(MaxChunks * ChunkSize),                  \* 5 chunks
      NWords(MaxChunks * ChunkSize + 1),              \* 6 chunks
      LongSentence \o <<" ">> \o ShortSentence \o <<" ", "\n">>
          \o LongSentence \o << " ", "a", "b", ".", "a", "b", " ", " ", "a", "b", "?" >>,
      Rep(LongSentence \o <<" ">>, MaxSentences + 1), \* 21 sentences to classify
      Rep(ShortSentence \o <<" ">>, MaxSentences + 2) \* 22 short sentences
    }

Vec(s) == [l \in Tactics |-> s[CHOOSE i \in 1..Len(TACTIC_LABELS) : TACTIC_LABELS[i] = l]]
Scores(s) == [raises |-> FALSE, vec |-> Vec(s)]
Raises == [raises |-> TRUE, vec |-> Vec(<<0, 0, 0, 0, 0, 0>>)]

VLow == Scores(<<0, 10, 250, 251, 0, 20>>)
VHigh == Scores(<<1000, 1000, 1000, 1000, 1000, 1000>>)
VEdge == Scores(<<389, 389, 389, 389, 388, 388>>)
VTies == Scores(<<100, 300, 900, 300, 300, 260>>)
VTop == Scores(<<301, 200, 100, 0, 0, 0>>)

\* what the classifier does on the 1st, 2nd, ... call of a request (cyclic)
Oracles ==
    { <<VEdge>>, <<VTies, VLow>>, <<VHigh, VLow>>,
      <<Raises>>, <<VTies, Raises>>, <<VTop, VTop, VTop, VTop, VTop, Raises>> }

Url == << "u" >>
Flags == BOOLEAN

Requests ==
    [text : Texts, url : {<<>>, Url}, image_url : {<<>>, Url},
     caption : {<<>>, << "c" >>},
     include_explanation : Flags, include_highlights : Flags]

ReplySectioned ==
    H_SUMMARY \o << "\n", "a", "b", "\n" >> \o H_KEY_TACTICS \o << "\n", "c" >>
ReplyPlain == << "a", "b" >>

LlmOutcomes ==
    { [raises |-> TRUE, exc |-> "timeout", text |-> <<>>],
      [raises |-> FALSE, exc |-> "", text |-> ReplySectioned],
      [raises |-> FALSE, exc |-> "", text |-> ReplyPlain] }

ClipOutcomes ==
    { [fetch_fails |-> TRUE, infer_fails |-> FALSE, probs |-> <<>>],
      [fetch_fails |-> FALSE, infer_fails |-> TRUE, probs |-> <<>>],
      [fetch_fails |-> FALSE, infer_fails |-> FALSE, probs |-> <<399, 601, 0, 0>>] }

ApiKeys == { <<>>, << "k" >> }

\* ------------------------------------------------------------------ state
Unset == [unset |-> TRUE]
NoResponse == [status |-> 0]
NoRequest ==
    [text |-> <<>>, url |-> <<>>, image_url |-> <<>>, caption |-> <<>>,
     include_explanation |-> TRUE, include_highlights |-> TRUE]

Call(name) == [fn |-> name]

\* the process before `import multimodal` has run _load_clip()
Init ==
    /\ env_key \in ApiKeys
    /\ client = NoClient
    /\ available = FALSE
    /\ clip_loaded = FALSE
    /\ pc = "import"
    /\ endpoint = "none"
    /\ req = NoRequest
    /\ oracle = <<Raises>>
    /\ analysis = Unset
    /\ highlights = <<>>
    /\ explanation = Unset
    /\ multimodal = Unset
    /\ document = <<>>
    /\ response = NoResponse
    /\ calls = <<>>
    /\ reply = <<>>
    /\ sections = <<>>

process == <<env_key, client, available, clip_loaded>>
locals == <<analysis, highlights, explanation, multimodal, document>>
parser == <<reply, sections>>

\* multimodal._load_clip() at import: the only writer of _available
LoadClip ==
    /\ pc = "import"
    /\ \E ok \in BOOLEAN : available' = ok
    /\ clip_loaded' = TRUE
    /\ pc' = "idle"
    /\ UNCHANGED <<env_key, client, endpoint, req, oracle, locals, response,
                   calls, parser>>

\* the environment sets or unsets ANTHROPIC_API_KEY.  The variable is read
\* only by _get_client, so a change during a request acts as one made just
\* before or just after it; changes are taken between requests.
SetEnv ==
    /\ pc = "idle"
    /\ \E k \in ApiKeys : k # env_key /\ env_key' = k
    /\ UNCHANGED <<client, available, clip_loaded, pc, endpoint, req, oracle,
                   locals, response, calls, parser>>

\* a request arrives at one of the three POST routes
Receive ==
    /\ pc = "idle"
    /\ \E e \in {"/analyze", "/quick-score", "/report"}, r \in Requests,
          o \in Oracles :
          /\ e = "/analyze" => r.url = <<>>
          /\ e = "/report" => r.image_url = <<>> /\ r.caption = <<>>
                              /\ r.include_explanation /\ r.include_highlights
          /\ e = "/quick-score" => r.url = <<>> /\ r.image_url = <<>>
                                   /\ r.caption = <<>> /\ r.include_explanation
                                   /\ r.include_highlights
          /\ endpoint' = e
          /\ req' = r
          /\ oracle' = o
    /\ pc' = "handler"
    /\ UNCHANGED <<process, locals, response, calls, parser>>

Finish(resp) == pc' = "done" /\ response' = resp

\* analyze(), app.py: the length check
AnalyzeValidate ==
    /\ pc = "handler" /\ endpoint = "/analyze"
    /\ IF TooShort(req.text)
       THEN Finish([status |-> 400,
                    detail |-> "Text must be at least 10 characters."])
       ELSE pc' = "classify" /\ UNCHANGED response
    /\ UNCHANGED <<process, endpoint, req, oracle, locals, calls, parser>>

\* 1. analysis = detector.analyze_text(req.text)
AnalyzeClassify ==
    /\ pc = "classify" /\ endpoint = "/analyze"
    /\ LET r == analyze_text(req.text, oracle, Append(calls, Call("analyze_text")))
       IN  /\ calls' = r.log
           /\ IF r.raised
              THEN Finish([status |-> 500]) /\ UNCHANGED analysis
              ELSE analysis' = r.result /\ pc' = "highlights"
                   /\ UNCHANGED response
    /\ UNCHANGED <<process, endpoint, req, oracle, highlights, explanation,
                   multimodal, document, parser>>

\* mutant: the highlighter runs whatever include_highlights says
AnalyzeHighlights_ignoring_flag ==
    /\ pc = "highlights" /\ endpoint = "/analyze"
    /\ LET r == highlight_sentences(req.text, oracle,
                    Append(calls, Call("highlight_sentences")))
       IN  highlights' = r.results /\ calls' = r.log
    /\ pc' = "explanation"
    /\ UNCHANGED <<process, endpoint, req, oracle, analysis, explanation,
                   multimodal, document, response, parser>>

\* 2. highlights = [] / detector.highlight_sentences(req.text)
AnalyzeHighlights ==
    /\ pc = "highlights" /\ endpoint = "/analyze"
    /\ IF req.include_highlights
       THEN LET r == highlight_sentences(req.text, oracle,
                        Append(calls, Call("highlight_sentences")))
            IN  highlights' = r.results /\ calls' = r.log
       ELSE highlights' = <<>> /\ UNCHANGED calls
    /\ pc' = "explanation"
    /\ UNCHANGED <<process, endpoint, req, oracle, analysis, explanation,
                   multimodal, document, response, parser>>

LLM_DISABLED ==
    [success |-> FALSE, full_explanation |-> <<"LLM disabled">>, sections |-> <<>>]

\* 3. explanation = placeholder / generate_explanation(req.text, analysis)
AnalyzeExplanation ==
    /\ pc = "explanation" /\ endpoint = "/analyze"
    /\ IF req.include_explanation
       THEN \E llm \in LlmOutcomes :
              LET r == generate_explanation(req.text, analysis, client, env_key,
                          llm, Append(calls, Call("generate_explanation")))
              IN  explanation' = r.result /\ client' = r.client /\ calls' = r.log
       ELSE explanation' = LLM_DISABLED /\ UNCHANGED <<client, calls>>
    /\ pc' = "multimodal"
    /\ UNCHANGED <<env_key, available, clip_loaded, endpoint, req, oracle,
                   analysis, highlights, multimodal, document, response, parser>>

\* 4. multimodal = {available: False} / analyze_image_caption /
\* analyze_clickbait, then the return statement
AnalyzeMultimodal ==
    /\ pc = "multimodal" /\ endpoint = "/analyze"
    /\ \E env \in ClipOutcomes :
         LET r == IF Truthy(req.image_url)
                  THEN IF Truthy(req.caption)
                       THEN analyze_image_caption(req.image_url, req.caption,
                              available, env,
                              Append(calls, Call("analyze_image_caption")))
                       ELSE analyze_clickbait(req.image_url, available, env,
                              Append(calls, Call("analyze_clickbait")))
                  ELSE [result |-> Unavailable, log |-> calls]
         IN  /\ multimodal' = r.result
             /\ calls' = r.log
             /\ Finish([status |-> 200,
                        body |-> [analysis |-> analysis,
                                  highlights |-> highlights,
                                  explanation |-> explanation,
                                  multimodal |-> r.result]])
    /\ UNCHANGED <<process, endpoint, req, oracle, analysis, highlights,
                   explanation, document, parser>>

\* quick_score() with the length check of analyze() put in front
QuickScore_validating ==
    /\ pc = "handler" /\ endpoint = "/quick-score"
    /\ IF TooShort(req.text)
       THEN /\ Finish([status |-> 400, detail |-> "Text too short."])
            /\ UNCHANGED <<analysis, calls>>
       ELSE LET r == analyze_text(req.text, oracle,
                                  Append(calls, Call("analyze_text")))
            IN  /\ calls' = r.log
                /\ IF r.raised
                   THEN Finish([status |-> 500]) /\ UNCHANGED analysis
                   ELSE /\ analysis' = r.result
                        /\ Finish([status |-> 200,
                                   body |-> [overall_score  |-> r.result.overall_score,
                                             severity       |-> r.result.severity,
                                             severity_color |-> r.result.severity_color,
                                             top_tactics    |-> r.result.top_tactics]])
    /\ UNCHANGED <<process, endpoint, req, oracle, highlights, explanation,
                   multimodal, document, parser>>

\* quick_score(): no validation
QuickScore ==
    /\ pc = "handler" /\ endpoint = "/quick-score"
    /\ LET r == analyze_text(req.text, oracle, Append(calls, Call("analyze_text")))
       IN  /\ calls' = r.log
           /\ IF r.raised
              THEN Finish([status |-> 500]) /\ UNCHANGED analysis
              ELSE /\ analysis' = r.result
                   /\ Finish([status |-> 200,
                              body |-> [overall_score  |-> r.result.overall_score,
                                        severity       |-> r.result.severity,
                                        severity_color |-> r.result.severity_color,
                                        top_tactics    |-> r.result.top_tactics]])
    /\ UNCHANGED <<process, endpoint, req, oracle, highlights, explanation,
                   multimodal, document, parser>>

\* download_report(), app.py: the length check
ReportValidate ==
    /\ pc = "handler" /\ endpoint = "/report"
    /\ IF TooShort(req.text)
       THEN Finish([status |-> 400, detail |-> "Text too short."])
       ELSE pc' = "classify" /\ UNCHANGED response
    /\ UNCHANGED <<process, endpoint, req, oracle, locals, calls, parser>>

ReportClassify ==
    /\ pc = "classify" /\ endpoint = "/report"
    /\ LET r == analyze_text(req.text, oracle, Append(calls, Call("analyze_text")))
       IN  /\ calls' = r.log
           /\ IF r.raised
              THEN Finish([status |-> 500]) /\ UNCHANGED analysis
              ELSE analysis' = r.result /\ pc' = "explanation"
                   /\ UNCHANGED response
    /\ UNCHANGED <<process, endpoint, req, oracle, highlights, explanation,
                   multimodal, document, parser>>

ReportExplanation ==
    /\ pc = "explanation" /\ endpoint = "/report"
    /\ \E llm \in LlmOutcomes :
         LET r == generate_explanation(req.text, analysis, client, env_key,
                     llm, Append(calls, Call("generate_explanation")))
         IN  explanation' = r.result /\ client' = r.client /\ calls' = r.log
    /\ pc' = "render"
    /\ UNCHANGED <<env_key, available, clip_loaded, endpoint, req, oracle,
                   analysis, highlights, multimodal, document, response, parser>>

\* pdf_buf = generate_report(...) and the StreamingResponse
ReportRender ==
    /\ pc = "render" /\ endpoint = "/report"
    /\ document' = generate_report(req.text, analysis, explanation, req.url)
    /\ calls' = Append(calls, Call("generate_report"))
    /\ Finish([status |-> 200, body |-> [media_type |-> "application/pdf"]])
    /\ UNCHANGED <<process, endpoint, req, oracle, analysis, highlights,
                   explanation, multimodal, parser>>

\* the response has been sent: the handler's frame is dropped and the worker
\* waits for the next request
Release ==
    /\ pc = "done"
    /\ pc' = "idle"
    /\ endpoint' = "none"
    /\ req' = NoRequest
    /\ oracle' = <<Raises>>
    /\ analysis' = Unset
    /\ highlights' = <<>>
    /\ explanation' = Unset
    /\ multimodal' = Unset
    /\ document' = <<>>
    /\ response' = NoResponse
    /\ calls' = <<>>
    /\ UNCHANGED <<process, parser>>

Next ==
    \/ LoadClip
    \/ SetEnv
    \/ Receive
    \/ AnalyzeValidate
    \/ AnalyzeClassify
    \/ AnalyzeHighlights
    \/ AnalyzeExplanation
    \/ AnalyzeMultimodal
    \/ QuickScore
    \/ ReportValidate
    \/ ReportClassify
    \/ ReportExplanation
    \/ ReportRender
    \/ Release

Spec == Init /\ [][Next]_vars

\* ------------------------------------------------- parser specification
\* _parse_sections applied to replies of up to MaxLines lines
ReplyLineKinds ==
    { H_SUMMARY,
      << "s", "u", "m", "m", "a", "r", "y" >>,
      << "K", "e", "y", " ", "T", "a", "c", "t", "i", "c", "s" >>,
      << " ", "c", "d", " " >>,
      << "V", "e", "r", "d", "i", "c", "t", " ", "x" >>,
      <<>> }

InitParse ==
    /\ env_key = <<>>
    /\ client = NoClient
    /\ available = FALSE
    /\ clip_loaded = FALSE
    /\ pc = "compose"
    /\ endpoint = "none"
    /\ req = NoRequest
    /\ oracle = <<Raises>>
    /\ analysis = Unset
    /\ highlights = <<>>
    /\ explanation = Unset
    /\ multimodal = Unset
    /\ document = <<>>
    /\ response = NoResponse
    /\ calls = <<>>
    /\ reply = <<>>
    /\ sections = <<>>

\* the LLM's reply grows by one line
AddLine ==
    /\ pc = "compose"
    /\ Len(SelectSeq(reply, LAMBDA c : c = "\n")) < MaxLines
    /\ \E l \in ReplyLineKinds : reply' = reply \o l \o << "\n" >>
    /\ UNCHANGED <<process, pc, endpoint, req, oracle, locals, response,
                   calls, sections>>

\* sections = _parse_sections(explanation)
Parse ==
    /\ pc = "compose"
    /\ sections' = _parse_sections(reply)
    /\ pc' = "parsed"
    /\ UNCHANGED <<process, endpoint, req, oracle, locals, response, calls,
                   reply>>

NextParse == AddLine \/ Parse

SpecParse == InitParse /\ [][NextParse]_vars

\* --------------------------------------------- multimodal specification
\* The two functions of multimodal.py called directly, any arguments, up to
\* MaxCalls times in a row after the import.  `endpoint` names the function
\* called last, `req` holds its arguments, `multimodal` its result, and
\* `calls` logs every call since the import.
ClipFunctions == {"analyze_image_caption", "analyze_clickbait"}
DirectCalls == SelectSeq(calls, LAMBDA c : c.fn \in ClipFunctions)

\* analyze_image_caption(u, c)
CallImageCaption ==
    /\ pc = "idle" /\ Len(DirectCalls) < MaxCalls
    /\ \E u \in {<<>>, Url}, c \in {<<>>, << "c" >>}, env \in ClipOutcomes :
         LET r == analyze_image_caption(u, c, available, env,
                      Append(calls, Call("analyze_image_caption")))
         IN  /\ endpoint' = "analyze_image_caption"
             /\ req' = [NoRequest EXCEPT !.image_url = u, !.caption = c]
             /\ multimodal' = r.result
             /\ calls' = r.log
    /\ UNCHANGED <<process, pc, oracle, analysis, highlights, explanation,
                   document, response, parser>>

\* analyze_clickbait(u)
CallClickbait ==
    /\ pc = "idle" /\ Len(DirectCalls) < MaxCalls
    /\ \E u \in {<<>>, Url}, env \in ClipOutcomes :
         LET r == analyze_clickbait(u, available, env,
                      Append(calls, Call("analyze_clickbait")))
         IN  /\ endpoint' = "analyze_clickbait"
             /\ req' = [NoRequest EXCEPT !.image_url = u]
             /\ multimodal' = r.result
             /\ calls' = r.log
    /\ UNCHANGED <<process, pc, oracle, analysis, highlights, explanation,
                   document, response, parser>>

NextClip == LoadClip \/ CallImageCaption \/ CallClickbait

SpecClip == Init /\ [][NextClip]_vars

\* ------------------------------------------------------------ properties
\* What the formulas below read off a state: the request's words and chunk
\* count, and the scores the classifier gave to the chunks that were
\* classified.
HasAnalysis == "overall_score" \in DOMAIN analysis
ValidText == req.text # <<>> /\ Len(strip(req.text)) >= 10
\* n, the number of chunks of a text of w words
NumChunks(w) == (w + ChunkSize - 1) \div ChunkSize
NumClassified(w) == IF NumChunks(w) <= 5 THEN NumChunks(w) ELSE 5
ChunkCalls == SelectSeq(calls, LAMBDA c : c.fn = "classifier" /\ c.multi_label)
\* for each tactic, the sum of the scores given to it on the first m calls
TacticSums(m) ==
    [l \in Tactics |-> SumSeq([k \in 1..m |-> OutcomeAt(oracle, k).vec[l]])]
LabelIndex(l) == CHOOSE i \in 1..6 : TACTIC_LABELS[i] = l

\* C1: in every result of analyze_text, severity and severity_color are the
\* tier of the overall_score placed in the result: below 40.0 LOW, from
\* 40.0 below 70.0 MODERATE, from 70.0 HIGH.
C1_SeverityOfReturnedScore ==
    HasAnalysis =>
        /\ analysis.overall_score >= 700 =>
              analysis.severity = "HIGH" /\ analysis.severity_color = "#ef4444"
        /\ analysis.overall_score >= 400 /\ analysis.overall_score < 700 =>
              analysis.severity = "MODERATE" /\ analysis.severity_color = "#f59e0b"
        /\ analysis.overall_score < 400 =>
              analysis.severity = "LOW" /\ analysis.severity_color = "#22c55e"

\* C2: for a text of at least 10 trimmed characters analyze_text calls the
\* classifier on the first min(5, n) chunks, in order and once each (a
\* raising call ends the run); the returned overall_score lies in [0, 100]
\* and is min(100, 180 x mean of the 6 tactic means over those chunks)
\* within the rounding to one decimal; tactic_scores has the 6 tactic names
\* as keys.
C2_ScoreOfFirstFiveChunks ==
    (calls # <<>> /\ ValidText) =>
        LET words == split(req.text)
            m     == NumClassified(Len(words))
            span  == [k \in 1..m |->
                        join(SubSeq(words, (k - 1) * ChunkSize + 1,
                                    IF k * ChunkSize <= Len(words)
                                    THEN k * ChunkSize ELSE Len(words)))]
            made  == ChunkCalls
            sums  == TacticSums(m)
            total == SumSeq([i \in 1..6 |-> sums[TACTIC_LABELS[i]]])
            den   == 6 * m * ScoreScale
            num   == IF 180 * total <= 100 * den THEN 180 * total ELSE 100 * den
            delta == 20 * num - 2 * analysis.overall_score * den
        IN  /\ Len(made) <= m
            /\ \A k \in 1..Len(made) :
                  /\ made[k].span = span[k]
                  /\ made[k].raised => k = Len(made)
            /\ HasAnalysis =>
                  /\ Len(made) = m
                  /\ analysis.chunks_analyzed = m
                  /\ analysis.overall_score >= 0
                  /\ analysis.overall_score <= 1000
                  /\ delta <= den /\ -delta <= den
                  /\ DOMAIN analysis.tactic_scores = Tactics
                  /\ Cardinality(DOMAIN analysis.tactic_scores) = 6

\* a sixth chunk exists and would have changed the score had it counted
C2_Witness ==
    /\ HasAnalysis /\ ValidText
    /\ NumChunks(Len(split(req.text))) > 5
    /\ OutcomeAt(oracle, 6) # OutcomeAt(oracle, 5)
    /\ analysis.overall_score > 0 /\ analysis.overall_score < 1000

\* C3: top_tactics has at most 3 entries, each with a mean score above 0.25;
\* a qualifying tactic left out scores no higher than any entry (and none
\* is left out while there is room); the entries are in descending order of
\* mean score, equal means in TACTIC_LABELS order.
C3_TopTactics ==
    (HasAnalysis /\ ValidText) =>
        LET top  == analysis.top_tactics
            m    == NumClassified(Len(split(req.text)))
            sums == TacticSums(m)
            qual == { l \in Tactics : 4 * sums[l] > m * ScoreScale }
            in   == { top[i] : i \in 1..Len(top) }
        IN  /\ Len(top) <= 3
            /\ in \subseteq qual
            /\ \A i, j \in 1..Len(top) : i < j =>
                  \/ sums[top[i]] > sums[top[j]]
                  \/ /\ sums[top[i]] = sums[top[j]]
                     /\ LabelIndex(top[i]) < LabelIndex(top[j])
            /\ \A l \in qual \ in :
                  /\ Len(top) = 3
                  /\ \A i \in 1..3 : sums[l] <= sums[top[i]]

\* three entries, two of them tied, and a tied qualifying tactic left out
C3_Witness ==
    /\ HasAnalysis /\ ValidText
    /\ LET top  == analysis.top_tactics
           sums == TacticSums(NumClassified(Len(split(req.text))))
       IN  /\ Len(top) = 3
           /\ sums[top[2]] = sums[top[3]]
           /\ \E l \in Tactics :
                 /\ sums[l] = sums[top[3]]
                 /\ \A i \in 1..3 : top[i] # l

\* the calls the /analyze handler makes on its components, in order
ComponentNames ==
    { "analyze_text", "highlight_sentences", "generate_explanation",
      "analyze_image_caption", "analyze_clickbait" }
ComponentsRun ==
    LET cs == SelectSeq(calls, LAMBDA c : c.fn \in ComponentNames)
    IN  [i \in 1..Len(cs) |-> cs[i].fn]
\* what the request asks for
ComponentsAsked ==
    <<"analyze_text">>
    \o (IF req.include_highlights THEN <<"highlight_sentences">> ELSE <<>>)
    \o (IF req.include_explanation THEN <<"generate_explanation">> ELSE <<>>)
    \o (IF req.image_url = <<>> THEN <<>>
        ELSE IF req.caption = <<>> THEN <<"analyze_clickbait">>
        ELSE <<"analyze_image_caption">>)
\* 1 classification, 2 highlighting, 3 explanation, 4 multimodal
PhaseOf(c) ==
    IF c.fn = "analyze_text" THEN 1
    ELSE IF c.fn = "classifier" THEN (IF c.multi_label THEN 1 ELSE 2)
    ELSE IF c.fn = "highlight_sentences" THEN 2
    ELSE IF c.fn \in {"generate_explanation", "llm"} THEN 3
    ELSE 4
PhasesInOrder ==
    \A i, j \in 1..Len(calls) : i < j => PhaseOf(calls[i]) <= PhaseOf(calls[j])
Placeholders ==
    /\ ~req.include_highlights => response.body.highlights = <<>>
    /\ ~req.include_explanation =>
          response.body.explanation =
              [success |-> FALSE, full_explanation |-> <<"LLM disabled">>,
               sections |-> <<>>]
    /\ req.image_url = <<>> => response.body.multimodal = [available |-> FALSE]
AnalyzeEnded == endpoint = "/analyze" /\ pc = "done" /\ ValidText

\* C4 as stated: every /analyze request with a valid text runs
\* classification, then highlighting iff include_highlights, then
\* explanation iff include_explanation, then the multimodal analyzer iff
\* image_url is non-empty (caption mode iff caption is non-empty), each at
\* most once, and its response carries the placeholder of each skipped step.
C4_AllValidRequests ==
    AnalyzeEnded =>
        /\ PhasesInOrder
        /\ ComponentsRun = ComponentsAsked
        /\ response.status = 200 => Placeholders

\* C4 amended: the same for every /analyze request with a valid text whose
\* classification does not raise; until then, and in a request whose
\* classification raises, the calls made are a prefix of that order.
C4_OrderOfCalls ==
    (endpoint = "/analyze" /\ ValidText) =>
        /\ PhasesInOrder
        /\ Len(ComponentsRun) <= Len(ComponentsAsked)
        /\ ComponentsRun = SubSeq(ComponentsAsked, 1, Len(ComponentsRun))
        /\ (pc = "done" /\ response.status = 200) =>
              /\ ComponentsRun = ComponentsAsked
              /\ Placeholders

\* a request that skips highlighting and explanation and runs the
\* clickbait analyzer has been answered
C4_Witness ==
    /\ AnalyzeEnded /\ response.status = 200
    /\ ~req.include_highlights /\ ~req.include_explanation
    /\ ComponentsRun = <<"analyze_text", "analyze_clickbait">>
    /\ \E i \in 1..Len(calls) : calls[i].fn = "clip"

RaisedCalls(fns) ==
    { i \in 1..Len(calls) : calls[i].fn \in fns /\ calls[i].raised }
ChunkCallRaised ==
    \E i \in RaisedCalls({"classifier"}) : calls[i].multi_label

\* C5: an /analyze request with a valid text fails iff the classifier raises
\* inside analyze_text, and that raising call is then the last call made;
\* a raising LLM call, image fetch, vision inference or classifier call of
\* highlight_sentences leaves the request successful, with success false
\* and the message, available false and the message, or a zeroed highlight.
C5_OnlyClassificationFails ==
    AnalyzeEnded =>
        /\ response.status # 200 <=> ChunkCallRaised
        /\ response.status # 200 =>
              /\ calls[Len(calls)].fn = "classifier"
              /\ calls[Len(calls)].raised /\ calls[Len(calls)].multi_label
              /\ \A i \in 1..Len(calls) :
                    calls[i].fn \in {"analyze_text", "classifier"}
        /\ response.status = 200 =>
              /\ RaisedCalls({"llm"}) # {} =>
                    /\ ~response.body.explanation.success
                    /\ response.body.explanation.sections = <<>>
                    /\ response.body.explanation.full_explanation[1] = "LLM error: "
              /\ RaisedCalls({"fetch_image", "clip"}) # {} =>
                    /\ ~response.body.multimodal.available
                    /\ "error" \in DOMAIN response.body.multimodal
              /\ \A i \in RaisedCalls({"classifier"}) :
                    \E h \in 1..Len(response.body.highlights) :
                        response.body.highlights[h] =
                            [text |-> calls[i].span, score |-> 0, tactic |-> None]

\* a successful response after the LLM call, the image fetch and a
\* classifier call of highlight_sentences all raised
C5_Witness ==
    /\ AnalyzeEnded /\ response.status = 200
    /\ RaisedCalls({"llm"}) # {}
    /\ RaisedCalls({"fetch_image"}) # {}
    /\ RaisedCalls({"classifier"}) # {}

\* C6: every generate_explanation call made while ANTHROPIC_API_KEY is unset
\* returns success false, no sections and the guidance message, and makes
\* no LLM call.
C6_DisabledWithoutCredential ==
    [][ ( /\ pc = "explanation" /\ pc' # "explanation"
          /\ endpoint = "/report" \/ req.include_explanation
          /\ env_key = <<>> )
        => /\ explanation' = [success |-> FALSE, full_explanation |-> GUIDANCE,
                              sections |-> <<>>]
           /\ \A i \in 1..Len(calls') : calls'[i].fn # "llm" ]_vars

\* the lines of the reply, and the reply shapes C7 speaks of
ReplyLines == splitlines(reply)
IsHeadingLine(l, h) == upper(l) = h
TextLine(l) == strip(l) # <<>>
PlainLine(l) ==
    /\ strip(l) # <<>>
    /\ \A k \in 1..Len(headings) : ~startswith(upper(strip(l)), headings[k])
JoinedBody(ls, from, to) ==
    join([k \in 1..(to - from + 1) |-> strip(ls[from + k - 1])])
TwoSections(ls, i, j) ==
    << <<H_SUMMARY, JoinedBody(ls, i + 1, j - 1)>>,
       <<H_KEY_TACTICS, JoinedBody(ls, j + 1, Len(ls))>> >>

\* C7 as stated: a reply made of a SUMMARY heading line, one or more
\* non-empty text lines, a KEY TACTICS heading line and one or more
\* non-empty text lines (headings in any letter case, body lines arbitrary)
\* parses to exactly the keys SUMMARY and KEY TACTICS, each with its
\* space-joined trimmed body lines.
C7_ArbitraryBodyLines ==
    pc = "parsed" =>
        LET ls == ReplyLines
        IN  \A j \in 3..(Len(ls) - 1) :
               ( /\ IsHeadingLine(ls[1], H_SUMMARY)
                 /\ IsHeadingLine(ls[j], H_KEY_TACTICS)
                 /\ \A k \in (2..(j - 1)) \cup ((j + 1)..Len(ls)) : TextLine(ls[k]) )
               => sections = TwoSections(ls, 1, j)

\* C7 amended: the same when no body line starts, once trimmed and
\* upper-cased, with one of the five heading strings; lines before the
\* first recognized heading appear in no section, and a reply without a
\* recognized heading has no sections.
C7_ParseSections ==
    pc = "parsed" =>
        LET ls == ReplyLines
            unheaded(k) == MatchHeading(strip(ls[k])) = None
        IN  /\ (\A k \in 1..Len(ls) : unheaded(k)) => sections = <<>>
            /\ \A i \in 1..Len(ls), j \in 1..(Len(ls) - 1) :
                  ( /\ i + 1 < j
                    /\ \A k \in 1..(i - 1) : unheaded(k)
                    /\ IsHeadingLine(ls[i], H_SUMMARY)
                    /\ IsHeadingLine(ls[j], H_KEY_TACTICS)
                    /\ \A k \in ((i + 1)..(j - 1)) \cup ((j + 1)..Len(ls)) :
                          PlainLine(ls[k]) )
                  => sections = TwoSections(ls, i, j)

\* a text line, a lower-case SUMMARY heading with a body line that needs
\* trimming, a mixed-case KEY TACTICS heading and its body have been parsed
C7_Witness ==
    /\ pc = "parsed"
    /\ LET ls == ReplyLines
       IN  /\ Len(ls) = 5
           /\ PlainLine(ls[1])
           /\ ls[2] # H_SUMMARY /\ IsHeadingLine(ls[2], H_SUMMARY)
           /\ PlainLine(ls[3]) /\ strip(ls[3]) # ls[3]
           /\ IsHeadingLine(ls[4], H_KEY_TACTICS)
           /\ PlainLine(ls[5])
           /\ sections = TwoSections(ls, 2, 4)

\* C8: /report on a valid text with the LLM credential unset renders a
\* tactic table of 6 tactic rows, each with the risk label of its score
\* (HIGH from 60, MODERATE from 35, else LOW), and an explanation section
\* holding the placeholder text returned by generate_explanation.
C8_ReportWithLlmDisabled ==
    ( /\ endpoint = "/report" /\ pc = "done" /\ response.status = 200
      /\ env_key = <<>> /\ explanation.full_explanation = GUIDANCE )
    => /\ \E d \in 1..Len(document) :
             /\ document[d].kind = "tactic_table"
             /\ Len(document[d].rows) = 7
             /\ \A r \in 2..7 :
                   LET row == document[d].rows[r]
                   IN  /\ row[1] = TACTIC_LABELS[r - 1]
                       /\ row[2] = analysis.tactic_scores[row[1]]
                       /\ row[3] = IF row[2] >= 600 THEN "HIGH"
                                   ELSE IF row[2] >= 350 THEN "MODERATE"
                                   ELSE "LOW"
       /\ \E d \in 1..Len(document) :
             /\ "text" \in DOMAIN document[d]
             /\ document[d].text = GUIDANCE

C10_Highlights ==
    ( /\ endpoint = "/analyze" /\ req.include_highlights
      /\ pc \in {"explanation", "multimodal", "done"}
      /\ response.status \in {0, 200} )
    => LET all    == SplitSentences(strip(req.text))
           m      == IF Len(all) <= 20 THEN Len(all) ELSE 20
           long   == [i \in 1..m |-> Len(split(all[i])) >= 4]
           first  == Len(ChunkCalls)
           no     == [i \in 1..m |->
                        first + Cardinality({ j \in 1..i : long[j] })]
           made   == SelectSeq(calls,
                        LAMBDA c : c.fn = "classifier" /\ ~c.multi_label)
           sent   == SelectSeq([i \in 1..m |-> i], LAMBDA i : long[i])
           best(o) == CHOOSE x \in { o.vec[l] : l \in Tactics } :
                         \A l \in Tactics : o.vec[l] <= x
       IN  /\ Len(highlights) = m
           /\ Len(made) = Len(sent)
           /\ \A k \in 1..Len(sent) : made[k].span = all[sent[k]]
           /\ \A i \in 1..m :
                 LET h == highlights[i]
                     o == OutcomeAt(oracle, no[i])
                 IN  /\ h.text = all[i]
                     /\ (~long[i] \/ o.raises) =>
                           h.score = 0 /\ h.tactic = None
                     /\ (long[i] /\ ~o.raises) =>
                           /\ h.score = (IF 18 * best(o) >= 10 * ScoreScale
                                         THEN 1000
                                         ELSE RoundHalfEven(1800 * best(o),
                                                            ScoreScale))
                           /\ IF 10 * best(o) > 3 * ScoreScale
                              THEN h.tactic \in Tactics
                                   /\ o.vec[h.tactic] = best(o)
                              ELSE h.tactic = None

\* 20 highlights for a text of more than 20 sentences, one zeroed by a
\* raising classification and a later one with its own score
C10_Witness ==
    /\ endpoint = "/analyze" /\ pc = "explanation"
    /\ Len(SplitSentences(strip(req.text))) > 20
    /\ Len(highlights) = 20
    /\ \E i, j \in 1..20 :
          /\ i < j
          /\ highlights[i].score = 0
          /\ \E c \in RaisedCalls({"classifier"}) :
                calls[c].span = highlights[i].text
          /\ highlights[j].score > 0

\* C11: a call of analyze_image_caption or analyze_clickbait made while
\* _available is false or with an empty image URL returns exactly
\* {available: false}, with no error key, and attempts neither the image
\* fetch nor the inference; once the import has run _load_clip, no call,
\* failing or not, changes _available.
C11_StaticGate ==
    [][ /\ clip_loaded => available' = available /\ clip_loaded'
        /\ ( /\ pc = "idle" /\ calls' # calls
              /\ (~available \/ req'.image_url = <<>>) )
           => /\ multimodal' = Unavailable
              /\ DOMAIN multimodal' = {"available"}
              /\ endpoint' \in ClipFunctions
              /\ calls' = Append(calls, Call(endpoint')) ]_vars

\* with the model loaded: a call whose fetch failed, then a call with an
\* empty URL that returned {available: false} without fetching; and with
\* the model not loaded: two calls with a URL, neither of which fetched
C11_Witness ==
    /\ pc = "idle" /\ clip_loaded /\ Len(DirectCalls) = 2
    /\ multimodal = Unavailable
    /\ \/ /\ available /\ req.image_url = <<>>
          /\ Len(calls) = 3 /\ calls[2].fn = "fetch_image" /\ calls[2].raised
          /\ calls[3].fn \in ClipFunctions
       \/ /\ ~available /\ req.image_url = Url
          /\ Len(calls) = 2

\* C12: analyze_text on a text that is empty or has fewer than 10
\* characters once trimmed returns overall_score 0.0, severity LOW, the 6
\* tactic scores all 0.0, no top tactics, chunks_analyzed 0 and word_count
\* 0 without calling the classifier; /quick-score, which reaches
\* analyze_text with such a text, answers 200 with the overall_score,
\* severity, severity_color and top_tactics of that result.
C12_CanonicalEmptyResult ==
    ( /\ endpoint = "/quick-score" /\ pc = "done"
      /\ (req.text = <<>> \/ Len(strip(req.text)) < 10) )
    => /\ calls = << Call("analyze_text") >>
       /\ HasAnalysis
       /\ analysis.overall_score = 0
       /\ analysis.severity = "LOW"
       /\ Cardinality(DOMAIN analysis.tactic_scores) = 6
       /\ \A i \in 1..6 : analysis.tactic_scores[TACTIC_LABELS[i]] = 0
       /\ analysis.top_tactics = <<>>
       /\ analysis.chunks_analyzed = 0
       /\ analysis.word_count = 0
       /\ response.status = 200
       /\ response.body = [overall_score  |-> 0,
                           severity       |-> "LOW",
                           severity_color |-> analysis.severity_color,
                           top_tactics    |-> <<>>]

\* /quick-score answered 200 for a text of 10 characters or more of which
\* fewer than 10 are left once trimmed, under a classifier that would raise
C12_Witness ==
    /\ endpoint = "/quick-score" /\ pc = "done"
    /\ Len(req.text) >= 10 /\ Len(strip(req.text)) < 10
    /\ OutcomeAt(oracle, 1).raises
    /\ response.status = 200
    /\ HasAnalysis /\ analysis.chunks_analyzed = 0

====
